---------------------------- MODULE Spec2Model ----------------------------
(***************************************************************************)
(* Model of PyInstaller 3.6 building/api.py: the build targets PYZ, PKG,   *)
(* EXE and COLLECT and the MERGE helper.  Each component has one state     *)
(* variable (a record of the fields and of the files it touches) and one   *)
(* specification; the other components stay idle in that specification.    *)
(***************************************************************************)
EXTENDS Integers, Sequences, FiniteSets, TLC

VARIABLES collect, pkg, merge, node, pyz

vars == <<collect, pkg, merge, node, pyz>>

Idle == [status |-> "idle"]

(***************************************************************************)
(* Sequences                                                               *)
(***************************************************************************)
Front(s) == SubSeq(s, 1, Len(s) - 1)

Last(s) == s[Len(s)]

Range(s) == {s[i] : i \in 1..Len(s)}

SeqsUpTo(S, n) == UNION {[1..k -> S] : k \in 0..n}

\* the subsequence of s at the positions whose element satisfies Test
SelectIdx(s, Test(_)) ==
    LET F[i \in 0..Len(s)] ==
            IF i = 0 THEN <<>>
            ELSE IF Test(i) THEN Append(F[i - 1], s[i]) ELSE F[i - 1]
    IN  F[Len(s)]

(***************************************************************************)
(* Manifest entries (inm, fnm, typ).  An internal name is a relative or    *)
(* absolute path: its segments, and the suffix of its last segment.        *)
(***************************************************************************)
Name(abs, segs, ext) == [abs |-> abs, segs |-> segs, ext |-> ext]

Entry(inm, fnm, typ) == [inm |-> inm, fnm |-> fnm, typ |-> typ]

\* the files on the build machine: what os.path.exists / isfile / isdir
\* answer for each source path the manifests mention
Disk ==
    [p \in {"/src/a.so", "/other/a.so", "/src/tree", "/lib.egg/a.so", "/gone/a.so"} |->
        CASE p = "/src/a.so" -> "file"
          [] p = "/other/a.so" -> "file"
          [] p = "/src/tree" -> "dir"
          [] OTHER -> "missing"]

os_path_exists(fnm) == fnm \in DOMAIN Disk /\ Disk[fnm] # "missing"

os_path_isfile(fnm) == fnm \in DOMAIN Disk /\ Disk[fnm] = "file"

os_path_isdir(fnm) == fnm \in DOMAIN Disk /\ Disk[fnm] = "dir"

is_path_to_egg(fnm) == fnm = "/lib.egg/a.so"

\* the platform suffix is appended to an EXTENSION name that has none
add_suffix(e) ==
    IF e.typ = "EXTENSION" /\ e.inm.ext = ""
    THEN [e EXCEPT !.inm.ext = ".so"]
    ELSE e

add_suffix_to_extensions(toc) == [i \in 1..Len(toc) |-> add_suffix(toc[i])]

\* the strip/upx cache step: the file the archive or the directory gets
checkCache(fnm, strip, upx) ==
    IF strip \/ upx THEN "cache:" \o fnm ELSE fnm

(***************************************************************************)
(* COLLECT.assemble                                                        *)
(***************************************************************************)
\* os.path.normpath on the segments of a path
RECURSIVE NormSegs(_, _, _)
NormSegs(abs, segs, acc) ==
    IF segs = <<>> THEN acc
    ELSE LET s == Head(segs)
             rest == Tail(segs)
         IN  IF s = "." THEN NormSegs(abs, rest, acc)
             ELSE IF s = ".."
                  THEN IF acc # <<>> /\ Last(acc) # ".."
                       THEN NormSegs(abs, rest, Front(acc))
                       ELSE IF abs THEN NormSegs(abs, rest, acc)
                            ELSE NormSegs(abs, rest, Append(acc, ".."))
                  ELSE NormSegs(abs, rest, Append(acc, s))

normpath(abs, segs) == NormSegs(abs, segs, <<>>)

\* a location: an absolute path, or a path relative to the dist directory
Loc(abs, segs) == [abs |-> abs, segs |-> normpath(abs, segs)]

InsideDist(loc) == ~loc.abs /\ ".." \notin Range(loc.segs)

\* a guard that forgets the parent-directory test
SecurityAlertAbsOnly(inm) == inm.abs

\* a guard without the isabs test
SecurityAlertPardirOnly(inm) ==
    ".." \in Range(normpath(inm.abs, inm.segs))

\* line 718: os.pardir in os.path.normpath(inm).split(os.sep) or isabs(inm)
SecurityAlert(inm) ==
    ".." \in Range(normpath(inm.abs, inm.segs)) \/ inm.abs

\* directories that exist whatever the build does: the dist directory
\* itself, its ancestors and the file system root
IsDir(fs, loc) ==
    \/ loc \in fs.dirs
    \/ loc.segs = <<>>
    \/ (~loc.abs /\ Range(loc.segs) = {".."})

IsFile(fs, loc) == loc \in fs.files

\* os.path.exists of a raw path: every component is resolved in turn, so
\* "d/.." exists only when "d" is a directory
RECURSIVE Exists(_, _, _)
Exists(fs, abs, segs) ==
    IF segs = <<>> THEN TRUE
    ELSE /\ Exists(fs, abs, Front(segs))
         /\ IsDir(fs, Loc(abs, Front(segs)))
         /\ \/ Last(segs) \in {".", ".."}
            \/ IsDir(fs, Loc(abs, segs))
            \/ IsFile(fs, Loc(abs, segs))

\* os.makedirs(path): [err |-> "none" | "exists" | "oserror", fs |-> ...]
RECURSIVE Makedirs(_, _, _)
Makedirs(fs, abs, segs) ==
    LET head == Front(segs)
        tail == Last(segs)
        sub == IF head # <<>> /\ ~Exists(fs, abs, head)
               THEN Makedirs(fs, abs, head)
               ELSE [err |-> "none", fs |-> fs]
        fs1 == sub.fs
    IN  IF sub.err = "oserror" THEN sub
        ELSE IF tail = "." /\ head # <<>> /\ ~Exists(fs, abs, head)
             THEN [err |-> "none", fs |-> fs1]
        ELSE IF Exists(fs1, abs, segs) THEN [err |-> "exists", fs |-> fs1]
        ELSE IF ~(Exists(fs1, abs, head) /\ IsDir(fs1, Loc(abs, head)))
             THEN [err |-> "oserror", fs |-> fs1]
        ELSE [err |-> "none",
              fs |-> [fs1 EXCEPT !.dirs = @ \cup {Loc(abs, segs)}]]


\* the last segment of a name carries the name's suffix
RawSegs(inm) ==
    IF inm.segs = <<>> THEN <<>>
    ELSE Append(Front(inm.segs), Last(inm.segs) \o inm.ext)

basename(fnm) == "a.so"

EmptyDist == [dirs |-> {}, files |-> {}]

\* line 715: not exists(fnm) or not isfile(fnm) and is_path_to_egg(fnm)
CollectSkips(e) ==
    ~os_path_exists(e.fnm) \/ (~os_path_isfile(e.fnm) /\ is_path_to_egg(e.fnm))

CollectEntry == collect.toc[collect.idx]

CollectRunning == collect.status = "running" /\ collect.idx <= Len(collect.toc)

\* the directory the entry goes to, as joined by line 722-723
todir(inm) == Front(RawSegs(inm))

\* lines 724-725: the state after os.makedirs when todir does not exist
AfterMakedirs(fs, inm) ==
    IF Exists(fs, inm.abs, todir(inm))
    THEN [err |-> "none", fs |-> fs]
    ELSE Makedirs(fs, inm.abs, todir(inm))

\* lines 736-742: shutil.copytree / shutil.copy of the entry to tofnm
CopyInto(fs, e) ==
    LET dst == Loc(e.inm.abs, RawSegs(e.inm))
    IN  IF e.typ = "DEPENDENCY" THEN [err |-> "none", fs |-> fs]
        ELSE IF os_path_isdir(e.fnm)
             THEN IF Exists(fs, e.inm.abs, RawSegs(e.inm))
                  THEN [err |-> "exists", fs |-> fs]
                  ELSE [err |-> "none", fs |-> [fs EXCEPT !.dirs = @ \cup {dst}]]
        ELSE IF IsDir(fs, dst)
             THEN [err |-> "none",
                   fs |-> [fs EXCEPT !.files =
                              @ \cup {Loc(dst.abs, Append(dst.segs, basename(e.fnm)))}]]
        ELSE [err |-> "none", fs |-> [fs EXCEPT !.files = @ \cup {dst}]]

\* lines 711-713: wipe the output directory, normalise the manifest
COLLECT_start ==
    /\ collect.status = "ready"
    /\ collect' = [collect EXCEPT !.status = "running",
                                  !.fs = EmptyDist,
                                  !.toc = add_suffix_to_extensions(collect.toc),
                                  !.idx = 1]
    /\ UNCHANGED <<pkg, merge, node, pyz>>

\* lines 715-717
COLLECT_skip ==
    /\ CollectRunning
    /\ CollectSkips(CollectEntry)
    /\ collect' = [collect EXCEPT !.idx = @ + 1,
                                  !.skipped = @ \cup {collect.idx}]
    /\ UNCHANGED <<pkg, merge, node, pyz>>

\* lines 718-721
COLLECT_security_alert ==
    /\ CollectRunning
    /\ ~CollectSkips(CollectEntry)
    /\ SecurityAlert(CollectEntry.inm)
    /\ collect' = [collect EXCEPT !.status = "security_alert"]
    /\ UNCHANGED <<pkg, merge, node, pyz>>

\* lines 724-725: os.makedirs raises
COLLECT_makedirs_error ==
    /\ CollectRunning
    /\ ~CollectSkips(CollectEntry)
    /\ ~SecurityAlert(CollectEntry.inm)
    /\ AfterMakedirs(collect.fs, CollectEntry.inm).err # "none"
    /\ collect' = [collect EXCEPT
                      !.status = "oserror",
                      !.fs = AfterMakedirs(collect.fs, CollectEntry.inm).fs]
    /\ UNCHANGED <<pkg, merge, node, pyz>>

\* lines 726-730
COLLECT_type_conflict ==
    /\ CollectRunning
    /\ ~CollectSkips(CollectEntry)
    /\ ~SecurityAlert(CollectEntry.inm)
    /\ Exists(collect.fs, CollectEntry.inm.abs, todir(CollectEntry.inm))
    /\ ~IsDir(collect.fs, Loc(CollectEntry.inm.abs, todir(CollectEntry.inm)))
    /\ collect' = [collect EXCEPT !.status = "type_conflict"]
    /\ UNCHANGED <<pkg, merge, node, pyz>>

\* lines 731-748: the entry is copied into place (or copytree raises)
COLLECT_copy ==
    /\ CollectRunning
    /\ ~CollectSkips(CollectEntry)
    /\ ~SecurityAlert(CollectEntry.inm)
    /\ LET made == AfterMakedirs(collect.fs, CollectEntry.inm)
           put == CopyInto(made.fs, CollectEntry)
       IN  /\ made.err = "none"
           /\ IsDir(made.fs, Loc(CollectEntry.inm.abs, todir(CollectEntry.inm)))
           /\ collect' =
                IF put.err # "none"
                THEN [collect EXCEPT !.status = "oserror", !.fs = put.fs]
                ELSE [collect EXCEPT !.idx = @ + 1,
                                     !.fs = put.fs,
                                     !.copied =
                                         IF CollectEntry.typ = "DEPENDENCY" THEN @
                                         ELSE @ \cup {collect.idx}]
    /\ UNCHANGED <<pkg, merge, node, pyz>>

\* lines 749-750
COLLECT_finish ==
    /\ collect.status = "running"
    /\ collect.idx = Len(collect.toc) + 1
    /\ collect' = [collect EXCEPT !.status = "done"]
    /\ UNCHANGED <<pkg, merge, node, pyz>>

MaxCollectToc == 2

CollectNames ==
    {Name(FALSE, <<"a">>, ""), Name(FALSE, <<"d">>, ""),
     Name(FALSE, <<"d", "b">>, ""), Name(FALSE, <<"..", "a">>, ""),
     Name(FALSE, <<"d", "..", "a">>, ""), Name(TRUE, <<"a">>, "")}

CollectSources ==
    {<<"/src/a.so", "DATA">>, <<"/src/tree", "DATA">>, <<"/gone/a.so", "DATA">>,
     <<"/src/a.so", "BINARY">>, <<"/src/a.so", "DEPENDENCY">>}

CollectEntries ==
    {Entry(n, s[1], s[2]) : n \in CollectNames, s \in CollectSources}

InitCollect ==
    /\ collect \in [status : {"ready"},
                    toc : SeqsUpTo(CollectEntries, MaxCollectToc),
                    idx : {0},
                    fs : {[dirs |-> {}, files |-> {Loc(FALSE, <<"stale">>)}]},
                    copied : {{}},
                    skipped : {{}}]
    /\ pkg = Idle /\ merge = Idle /\ node = Idle /\ pyz = Idle

NextCollect ==
    \/ COLLECT_start
    \/ COLLECT_skip
    \/ COLLECT_security_alert
    \/ COLLECT_makedirs_error
    \/ COLLECT_type_conflict
    \/ COLLECT_copy
    \/ COLLECT_finish

SpecCollect == InitCollect /\ [][NextCollect]_vars


(***************************************************************************)
(* C1  Path-traversal guard of COLLECT.assemble                            *)
(***************************************************************************)
\* C1 as stated: when the build aborts on an absolute or ".." internal
\* name, no file has been written into the output directory yet: no entry
\* that precedes the offending one has been copied.
C1_AbortsBeforeAnyWrite ==
    collect.status = "security_alert" =>
        collect.copied = {} /\ collect.fs = EmptyDist

\* C1 amended: nothing is ever written outside the output directory and no
\* entry whose name is absolute or normalises to a path with a ".." segment
\* is ever copied; when the guard aborts the build, the offending entry and
\* every later one are unwritten, while each preceding entry was either
\* skipped (no backing file) or already copied (a DEPENDENCY entry is
\* passed over without a copy); a build completes only if
\* every such entry was skipped for its missing backing file.
C1_GuardStopsAtOffendingEntry ==
    collect.status # "idle" =>
        /\ \A l \in collect.fs.dirs \cup collect.fs.files :
              collect.status # "ready" => InsideDist(l)
        /\ \A j \in collect.copied : ~SecurityAlert(collect.toc[j].inm)
        /\ collect.status = "security_alert" =>
              /\ collect.idx \in 1..Len(collect.toc)
              /\ SecurityAlert(collect.toc[collect.idx].inm)
              /\ os_path_exists(collect.toc[collect.idx].fnm)
              /\ collect.copied \cup collect.skipped \subseteq 1..(collect.idx - 1)
              /\ collect.copied \cap collect.skipped = {}
              /\ \A j \in 1..(collect.idx - 1) :
                    \/ j \in collect.skipped
                    \/ j \in collect.copied
                    \/ collect.toc[j].typ = "DEPENDENCY"
        /\ collect.status = "done" =>
              \A i \in 1..Len(collect.toc) :
                  SecurityAlert(collect.toc[i].inm) => i \in collect.skipped

\* the guard fires after an earlier entry has been copied
C1_Witness ==
    /\ collect.status = "security_alert"
    /\ collect.copied # {}
    /\ collect.fs.files # {}


(***************************************************************************)
(* PKG.assemble                                                            *)
(***************************************************************************)
UNCOMPRESSED == 0

COMPRESSED == 1

\* PKG.xformdict.get(typ, 'b')
xformdict(typ) ==
    CASE typ = "PYMODULE" -> "m"
      [] typ = "PYSOURCE" -> "s"
      [] typ = "EXTENSION" -> "b"
      [] typ = "PYZ" -> "z"
      [] typ = "PKG" -> "a"
      [] typ = "DATA" -> "x"
      [] typ = "BINARY" -> "b"
      [] typ = "ZIPFILE" -> "Z"
      [] typ = "EXECUTABLE" -> "b"
      [] typ = "DEPENDENCY" -> "d"
      [] OTHER -> "b"

\* the default self.cdict, read with .get(typ, 0)
cdict(typ) ==
    IF typ \in {"EXTENSION", "DATA", "BINARY", "EXECUTABLE", "PYSOURCE", "PYMODULE"}
    THEN COMPRESSED
    ELSE UNCOMPRESSED

TocEntry(inm, fnm, flag, code) ==
    [inm |-> inm, fnm |-> fnm, flag |-> flag, code |-> code]

\* the order of one-character type codes and of the internal names of the
\* manifests below, as Python compares the strings
CodeRank(c) ==
    CASE c = "Z" -> 1 [] c = "a" -> 2 [] c = "b" -> 3 [] c = "d" -> 4
      [] c = "m" -> 5 [] c = "o" -> 6 [] c = "s" -> 7 [] c = "x" -> 8
      [] c = "z" -> 9

StemRank(seg) ==
    CASE seg = "a" -> 1 [] seg = "b" -> 2
      [] seg = "pyi-bootloader-ignore-signals" -> 3
      [] seg = "pyi-runtime-tmpdir /tmp/x" -> 4

NameRank(inm) == 2 * StemRank(inm.segs[1]) + (IF inm.ext = "" THEN 0 ELSE 1)

\* itemgetter(3, 0): x sorts strictly before y
KeyLess(x, y) ==
    \/ CodeRank(x.code) < CodeRank(y.code)
    \/ x.code = y.code /\ NameRank(x.inm) < NameRank(y.inm)

\* list.sort is stable: x goes behind every element that is not greater
RECURSIVE InsertStable(_, _)
InsertStable(sorted, x) ==
    IF sorted = <<>> THEN <<x>>
    ELSE IF KeyLess(x, Head(sorted)) THEN <<x>> \o sorted
         ELSE <<Head(sorted)>> \o InsertStable(Tail(sorted), x)

RECURSIVE SortStable(_)
SortStable(s) ==
    IF s = <<>> THEN <<>>
    ELSE InsertStable(SortStable(Front(s)), Last(s))

\* lines 219-224
PkgLoopInit ==
    [mytoc |-> <<>>, srctoc |-> <<>>,
     seenInms |-> <<>>, seenFnms |-> <<>>, seenFnms_typ |-> <<>>,
     warnings |-> {}, kept |-> {}, skipped |-> {}, dropped |-> {},
     cached |-> {}]

\* line 231: the file is inside an egg and is added with the egg
PkgInEgg(e) ==
    e.fnm # "" /\ ~os_path_isfile(e.fnm) /\ is_path_to_egg(e.fnm)

\* a loop body without the seenInms test of line 240
PkgBranchNoDuplicateTest(st, e, exclude_binaries) ==
    IF PkgInEgg(e) THEN "egg"
    ELSE IF e.typ \in {"BINARY", "EXTENSION", "DEPENDENCY"}
         THEN IF exclude_binaries THEN "excluded" ELSE "binary"
    ELSE IF e.typ = "OPTION" THEN "option"
    ELSE IF e.typ \in {"PYSOURCE", "PYMODULE"} THEN "source"
    ELSE "other"

\* a loop body without the OPTION branch of line 266
PkgBranchNoOption(st, e, exclude_binaries) ==
    IF PkgInEgg(e) THEN "egg"
    ELSE IF e.typ \in {"BINARY", "EXTENSION", "DEPENDENCY"}
         THEN IF exclude_binaries THEN "excluded"
              ELSE IF e.typ = "BINARY" /\ e.inm \in DOMAIN st.seenInms
                   THEN "duplicate"
                   ELSE "binary"
    ELSE IF e.typ \in {"PYSOURCE", "PYMODULE"} THEN "source"
    ELSE "other"

\* a loop body that also skips a BINARY whose source path was seen
PkgBranchSkipsSeenFile(st, e, exclude_binaries) ==
    IF PkgInEgg(e) THEN "egg"
    ELSE IF e.typ \in {"BINARY", "EXTENSION", "DEPENDENCY"}
         THEN IF exclude_binaries THEN "excluded"
              ELSE IF e.typ = "BINARY" /\ (\/ e.inm \in DOMAIN st.seenInms
                                           \/ e.fnm \in DOMAIN st.seenFnms)
                   THEN "duplicate"
                   ELSE "binary"
    ELSE IF e.typ = "OPTION" THEN "option"
    ELSE IF e.typ \in {"PYSOURCE", "PYMODULE"} THEN "source"
    ELSE "other"

\* which branch of the loop body (lines 231-273) the entry takes
PkgBranch(st, e, exclude_binaries) ==
    IF PkgInEgg(e) THEN "egg"
    ELSE IF e.typ \in {"BINARY", "EXTENSION", "DEPENDENCY"}
         THEN IF exclude_binaries THEN "excluded"
              ELSE IF e.typ = "BINARY" /\ e.inm \in DOMAIN st.seenInms
                   THEN "duplicate"
                   ELSE "binary"
    ELSE IF e.typ = "OPTION" THEN "option"
    ELSE IF e.typ \in {"PYSOURCE", "PYMODULE"} THEN "source"
    ELSE "other"

\* lines 236-265: a binary that is kept
PkgBinary(st, i, e, strip, upx) ==
    [st EXCEPT
        !.warnings = IF e.typ = "BINARY" /\ e.fnm \in DOMAIN st.seenFnms
                     THEN @ \cup {[kind |-> "two internal names", idx |-> i]}
                     ELSE @,
        !.seenInms = (e.inm :> e.fnm) @@ @,
        !.seenFnms = (e.fnm :> e.inm) @@ @,
        !.seenFnms_typ = (e.fnm :> e.typ) @@ @,
        !.cached = @ \cup {e.fnm},
        !.mytoc = Append(@, TocEntry(e.inm, checkCache(e.fnm, strip, upx),
                                     cdict(e.typ), xformdict(e.typ))),
        !.kept = @ \cup {i}]

\* one pass of the loop body for entry i of the normalised manifest
PkgStep(st, i, e, cfg) ==
    LET branch == PkgBranch(st, e, cfg.exclude_binaries)
    IN  CASE branch = "egg" -> [st EXCEPT !.dropped = @ \cup {i}]
          [] branch = "excluded" -> st
          [] branch = "duplicate" ->
                [st EXCEPT !.warnings = @ \cup {[kind |-> "same internal name",
                                                 idx |-> i]},
                           !.skipped = @ \cup {i}]
          [] branch = "binary" ->
                PkgBinary(st, i, e, cfg.strip_binaries, cfg.upx_binaries)
          [] branch = "option" ->
                [st EXCEPT !.mytoc = Append(@, TocEntry(e.inm, "", 0, "o")),
                           !.kept = @ \cup {i}]
          [] branch = "source" ->
                [st EXCEPT !.srctoc = Append(@, TocEntry(e.inm, e.fnm,
                                                 cdict(e.typ), xformdict(e.typ))),
                           !.kept = @ \cup {i}]
          [] OTHER ->
                [st EXCEPT !.mytoc = Append(@, TocEntry(e.inm, e.fnm,
                                                cdict(e.typ), xformdict(e.typ))),
                           !.kept = @ \cup {i}]

\* the loop of lines 228-273 over the first n entries
RECURSIVE PkgLoop(_, _, _)
PkgLoop(toc, n, cfg) ==
    IF n = 0 THEN PkgLoopInit
    ELSE PkgStep(PkgLoop(toc, n - 1, cfg), n, toc[n], cfg)

\* a table without the sort of line 280
PkgTableUnsorted(st) == st.srctoc \o st.mytoc

\* a table that sorts the sources and modules with the rest
PkgTableAllSorted(st) == SortStable(st.srctoc \o st.mytoc)

\* a table that puts the sorted rest in front of the sources and modules
PkgTableSourcesLast(st) == SortStable(st.mytoc) \o st.srctoc

\* lines 280-283: the table handed to CArchiveWriter
PkgTable(st) == st.srctoc \o SortStable(st.mytoc)

\* PKG.assemble as a function of the manifest
PkgAssemble(toc, cfg) ==
    PkgTable(PkgLoop(add_suffix_to_extensions(toc), Len(toc), cfg))

\* the archive writer reads every payload: a kept entry whose backing file
\* is missing is a hard error
MissingPayload(toc, st) ==
    \E i \in st.kept : toc[i].fnm # "" /\ ~os_path_exists(toc[i].fnm)

PkgCfg == [exclude_binaries |-> pkg.exclude_binaries,
           strip_binaries |-> pkg.strip_binaries,
           upx_binaries |-> pkg.upx_binaries]

PkgRunning == pkg.status = "running" /\ pkg.idx <= Len(pkg.ntoc)

PkgTakes(branch) ==
    /\ PkgRunning
    /\ PkgBranch(pkg.loop, pkg.ntoc[pkg.idx], pkg.exclude_binaries) = branch

PkgAdvance ==
    pkg' = [pkg EXCEPT
               !.loop = PkgStep(pkg.loop, pkg.idx, pkg.ntoc[pkg.idx], PkgCfg),
               !.idx = @ + 1]

\* lines 217-225
PKG_start ==
    /\ pkg.status = "ready"
    /\ pkg' = [pkg EXCEPT !.status = "running",
                          !.ntoc = add_suffix_to_extensions(pkg.toc),
                          !.loop = PkgLoopInit,
                          !.idx = 1]
    /\ UNCHANGED <<collect, merge, node, pyz>>

\* lines 231-233
PKG_in_egg ==
    /\ PkgTakes("egg") /\ PkgAdvance
    /\ UNCHANGED <<collect, merge, node, pyz>>

\* lines 234-235, exclude_binaries set
PKG_excluded ==
    /\ PkgTakes("excluded") /\ PkgAdvance
    /\ UNCHANGED <<collect, merge, node, pyz>>

\* lines 240-246
PKG_duplicate ==
    /\ PkgTakes("duplicate") /\ PkgAdvance
    /\ UNCHANGED <<collect, merge, node, pyz>>

\* lines 248-265
PKG_binary ==
    /\ PkgTakes("binary") /\ PkgAdvance
    /\ UNCHANGED <<collect, merge, node, pyz>>

\* lines 266-267
PKG_option ==
    /\ PkgTakes("option") /\ PkgAdvance
    /\ UNCHANGED <<collect, merge, node, pyz>>

\* lines 268-271
PKG_source ==
    /\ PkgTakes("source") /\ PkgAdvance
    /\ UNCHANGED <<collect, merge, node, pyz>>

\* lines 272-273
PKG_other ==
    /\ PkgTakes("other") /\ PkgAdvance
    /\ UNCHANGED <<collect, merge, node, pyz>>

\* lines 275-289
PKG_write ==
    /\ pkg.status = "running"
    /\ pkg.idx = Len(pkg.ntoc) + 1
    /\ ~MissingPayload(pkg.ntoc, pkg.loop)
    /\ pkg' = [pkg EXCEPT !.status = "done", !.table = PkgTable(pkg.loop)]
    /\ UNCHANGED <<collect, merge, node, pyz>>

\* lines 283-284: the writer cannot read a payload
PKG_write_error ==
    /\ pkg.status = "running"
    /\ pkg.idx = Len(pkg.ntoc) + 1
    /\ MissingPayload(pkg.ntoc, pkg.loop)
    /\ pkg' = [pkg EXCEPT !.status = "error"]
    /\ UNCHANGED <<collect, merge, node, pyz>>

MaxPkgToc == 3

NameA == Name(FALSE, <<"a">>, "")

NameB == Name(FALSE, <<"b">>, "")

NameASo == Name(FALSE, <<"a">>, ".so")

NameBSo == Name(FALSE, <<"b">>, ".so")

\* lines 404-405: the OPTION entry EXE.__init__ appends for runtime_tmpdir
RuntimeTmpdirOption ==
    Entry(Name(FALSE, <<"pyi-runtime-tmpdir /tmp/x">>, ""), "", "OPTION")

PkgEntries ==
    {Entry(NameASo, "/src/a.so", "BINARY"),
     Entry(NameASo, "/other/a.so", "BINARY"),
     Entry(NameBSo, "/src/a.so", "BINARY"),
     Entry(NameASo, "/lib.egg/a.so", "BINARY"),
     Entry(NameBSo, "/gone/a.so", "BINARY"),
     Entry(NameA, "/other/a.so", "EXTENSION"),
     Entry(NameASo, "/src/a.so", "DEPENDENCY"),
     Entry(NameA, "/src/a.so", "DATA"),
     Entry(NameA, "/other/a.so", "DATA"),
     Entry(NameB, "/src/a.so", "DATA"),
     Entry(NameA, "/src/a.so", "PYSOURCE"),
     Entry(NameB, "/src/a.so", "PYSOURCE"),
     Entry(NameA, "/other/a.so", "PYMODULE"),
     Entry(NameB, "/lib.egg/a.so", "PYMODULE"),
     RuntimeTmpdirOption}

InitPkg ==
    /\ pkg \in [status : {"ready"},
                toc : SeqsUpTo(PkgEntries, MaxPkgToc),
                exclude_binaries : BOOLEAN,
                strip_binaries : BOOLEAN,
                upx_binaries : {FALSE},
                ntoc : {<<>>},
                idx : {0},
                loop : {PkgLoopInit},
                table : {<<>>}]
    \* strip_binaries is read only where binaries are embedded (line 259)
    /\ pkg.exclude_binaries => ~pkg.strip_binaries
    /\ collect = Idle /\ merge = Idle /\ node = Idle /\ pyz = Idle

NextPkg ==
    \/ PKG_start
    \/ PKG_in_egg
    \/ PKG_excluded
    \/ PKG_duplicate
    \/ PKG_binary
    \/ PKG_option
    \/ PKG_source
    \/ PKG_other
    \/ PKG_write
    \/ PKG_write_error

SpecPkg == InitPkg /\ [][NextPkg]_vars


(***************************************************************************)
(* Claims about PKG.assemble                                               *)
(***************************************************************************)
PkgLoopDone == pkg.status \in {"done", "error"}

IsSource(e) == e.typ \in {"PYSOURCE", "PYMODULE"}

IsBinaryKind(e) == e.typ \in {"BINARY", "EXTENSION", "DEPENDENCY"}

\* the internal names that two BINARY entries with different source paths share
DuplicateBinaryNames(toc) ==
    {toc[i].inm : i \in {i \in 1..Len(toc) :
        /\ toc[i].typ = "BINARY"
        /\ \E j \in 1..Len(toc) :
              /\ toc[j].typ = "BINARY"
              /\ toc[j].inm = toc[i].inm
              /\ toc[j].fnm # toc[i].fnm}}

BinariesNamed(toc, n) ==
    {i \in 1..Len(toc) : toc[i].typ = "BINARY" /\ toc[i].inm = n}

Min(S) == CHOOSE x \in S : \A y \in S : x <= y

TableRows(table, n, code) ==
    {k \in 1..Len(table) : table[k].inm = n /\ table[k].code = code}

Warned(kind, i) == [kind |-> kind, idx |-> i] \in pkg.loop.warnings

AllFilesPresent(toc) ==
    \A i \in 1..Len(toc) : toc[i].fnm = "" \/ os_path_isfile(toc[i].fnm)

\* C2 as stated: with exclude_binaries false, of two or more BINARY entries
\* that share an internal name and differ in source path the final index
\* holds exactly one binary entry with that name, fed from the first of
\* them as returned by the cache step; every later one is skipped with a
\* warning and assembly completes.  (Stated here for the manifests whose
\* backing files are all on disk, where nothing but the duplicate is amiss.)
C2_FirstBinaryWins ==
    (PkgLoopDone /\ ~pkg.exclude_binaries /\ AllFilesPresent(pkg.ntoc)) =>
        \A n \in DuplicateBinaryNames(pkg.ntoc) :
            LET first == Min(BinariesNamed(pkg.ntoc, n))
            IN  /\ pkg.status = "done"
                /\ \E k \in 1..Len(pkg.table) :
                      /\ TableRows(pkg.table, n, "b") = {k}
                      /\ pkg.table[k].fnm =
                            checkCache(pkg.ntoc[first].fnm, pkg.strip_binaries,
                                       pkg.upx_binaries)
                /\ \A j \in BinariesNamed(pkg.ntoc, n) \ {first} :
                      j \in pkg.loop.skipped /\ Warned("same internal name", j)

\* C2 amended: of the BINARY entries sharing an internal name, those whose
\* file lies in an egg are dropped silently; of the others exactly the one
\* that no BINARY, EXTENSION or DEPENDENCY entry of that (normalised) name
\* precedes is kept, fed from its own source path as returned by the cache
\* step, and each of the rest is skipped with a warning; the index then
\* holds as many binary rows of that name as entries were kept for it, and
\* assembly aborts only when a kept entry's backing file is missing.
C2_FirstSeenNameWins ==
    (PkgLoopDone /\ ~pkg.exclude_binaries) =>
        /\ \A n \in DuplicateBinaryNames(pkg.ntoc) :
              /\ \A i \in BinariesNamed(pkg.ntoc, n) :
                    LET earlier == {j \in 1..(i - 1) :
                                       /\ IsBinaryKind(pkg.ntoc[j])
                                       /\ pkg.ntoc[j].inm = n
                                       /\ ~PkgInEgg(pkg.ntoc[j])}
                    IN  IF PkgInEgg(pkg.ntoc[i])
                        THEN i \in pkg.loop.dropped
                        ELSE IF earlier = {}
                        THEN /\ i \in pkg.loop.kept
                             /\ pkg.status = "done" =>
                                   \E k \in TableRows(pkg.table, n, "b") :
                                       pkg.table[k].fnm =
                                           checkCache(pkg.ntoc[i].fnm,
                                                      pkg.strip_binaries,
                                                      pkg.upx_binaries)
                        ELSE /\ i \in pkg.loop.skipped
                             /\ i \notin pkg.loop.kept
                             /\ Warned("same internal name", i)
              /\ Cardinality(BinariesNamed(pkg.ntoc, n) \cap pkg.loop.kept) <= 1
              /\ pkg.status = "done" =>
                    Cardinality(TableRows(pkg.table, n, "b")) =
                        Cardinality({i \in pkg.loop.kept :
                                        /\ pkg.ntoc[i].inm = n
                                        /\ pkg.ntoc[i].typ \in {"BINARY", "EXTENSION"}})
        /\ pkg.status = "error" => MissingPayload(pkg.ntoc, pkg.loop)

\* Scenario A has run: one of two same-named binaries is in the index, the
\* other was skipped with a warning
C2_Witness ==
    /\ pkg.status = "done"
    /\ ~pkg.exclude_binaries
    /\ \E n \in DuplicateBinaryNames(pkg.ntoc) :
          \E i, j \in BinariesNamed(pkg.ntoc, n) :
              /\ i < j
              /\ i \in pkg.loop.kept
              /\ j \in pkg.loop.skipped
              /\ Cardinality(TableRows(pkg.table, n, "b")) = 1

\* the orders of the manifest that keep the PYSOURCE/PYMODULE entries in
\* their relative order
Orderings(n) ==
    {q \in [1..n -> 1..n] : \A i, j \in 1..n : i # j => q[i] # q[j]}

Reordered(toc, q) == [k \in 1..Len(toc) |-> toc[q[k]]]

SourcesOf(toc) == SelectSeq(toc, IsSource)

OtherOrders(toc) ==
    {Reordered(toc, q) : q \in
        {q \in Orderings(Len(toc)) :
            SourcesOf(Reordered(toc, q)) = SourcesOf(toc)}}

\* C3 as stated: permuting the entries that are not PYSOURCE/PYMODULE never
\* changes the table handed to the archive writer.
C3_OrderOfOthersIrrelevant ==
    pkg.status = "done" =>
        \A other \in OtherOrders(pkg.toc) : PkgAssemble(other, PkgCfg) = pkg.table

\* no two entries outside PYSOURCE/PYMODULE have the same internal name
\* once the suffixes are added
OthersDistinctlyNamed(toc) ==
    \A i, j \in 1..Len(toc) :
        (i # j /\ ~IsSource(toc[i]) /\ ~IsSource(toc[j])) => toc[i].inm # toc[j].inm

\* C3 amended: permuting the entries that are not PYSOURCE/PYMODULE never
\* changes the table handed to the archive writer, provided no two of
\* them share an internal name after suffix normalisation.
C3_OrderOfDistinctOthersIrrelevant ==
    (pkg.status = "done" /\ OthersDistinctlyNamed(pkg.ntoc)) =>
        \A other \in OtherOrders(pkg.toc) : PkgAssemble(other, PkgCfg) = pkg.table

\* a manifest whose other entries are distinctly named, not in sorted
\* order, and have been sorted into the table
C3_Witness ==
    /\ pkg.status = "done"
    /\ OthersDistinctlyNamed(pkg.ntoc)
    /\ Cardinality(OtherOrders(pkg.toc)) > 1
    /\ \E i, j \in pkg.loop.kept :
          /\ i < j
          /\ ~IsSource(pkg.ntoc[i]) /\ ~IsSource(pkg.ntoc[j])
          /\ \E k, l \in 1..Len(pkg.table) :
                /\ k < l
                /\ pkg.table[k].inm = pkg.ntoc[j].inm
                /\ pkg.table[l].inm = pkg.ntoc[i].inm

\* what line 271 makes of a PYSOURCE/PYMODULE entry
SourceRow(e) == TocEntry(e.inm, e.fnm, COMPRESSED, IF e.typ = "PYSOURCE" THEN "s" ELSE "m")

KeptSource(e) == IsSource(e) /\ ~(~os_path_isfile(e.fnm) /\ is_path_to_egg(e.fnm))

IsSourceRow(r) == r.code \in {"s", "m"}

\* C4: the PYSOURCE/PYMODULE rows of the final table are the
\* PYSOURCE/PYMODULE entries of the manifest, less those inside an egg, in
\* manifest order: they are never sorted.
C4_SourcesKeepManifestOrder ==
    pkg.status = "done" =>
        LET kept == SelectSeq(pkg.toc, KeptSource)
        IN  SelectSeq(pkg.table, IsSourceRow) = [k \in 1..Len(kept) |-> SourceRow(kept[k])]

\* two sources reach the table in manifest order although the sort key
\* would put them the other way round
C4_Witness ==
    /\ pkg.status = "done"
    /\ \E k, l \in 1..Len(pkg.table) :
          /\ k < l
          /\ IsSourceRow(pkg.table[k]) /\ IsSourceRow(pkg.table[l])
          /\ KeyLess(pkg.table[l], pkg.table[k])
    /\ \E i \in 1..Len(pkg.toc) : IsSource(pkg.toc[i]) /\ ~KeptSource(pkg.toc[i])

IsOption(e) == e.typ = "OPTION" /\ e.fnm = ""

\* C9: every OPTION entry of the manifest is in the final table under its
\* own name with an empty source, compression flag 0 and type code 'o'; it
\* is neither dropped by the missing-file test nor sent through the cache
\* step, whatever exclude_binaries is.
C9_OptionsReachTable ==
    /\ pkg.status \in {"running", "done", "error"} =>
          \A i \in 1..(pkg.idx - 1) :
              IsOption(pkg.ntoc[i]) =>
                  /\ i \in pkg.loop.kept
                  /\ i \notin pkg.loop.dropped \cup pkg.loop.skipped
                  /\ \E k \in 1..Len(pkg.loop.mytoc) :
                        pkg.loop.mytoc[k] = TocEntry(pkg.ntoc[i].inm, "", 0, "o")
    /\ pkg.status \in {"running", "done", "error"} => "" \notin pkg.loop.cached
    /\ pkg.status = "done" =>
          /\ \A i \in 1..Len(pkg.toc) :
                IsOption(pkg.toc[i]) =>
                    \E k \in 1..Len(pkg.table) :
                        pkg.table[k] = TocEntry(pkg.toc[i].inm, "", 0, "o")
          /\ Cardinality({k \in 1..Len(pkg.table) : pkg.table[k].code = "o"})
                = Cardinality({i \in 1..Len(pkg.toc) : IsOption(pkg.toc[i])})

\* Scenario B has run, with binaries excluded
C9_Witness ==
    /\ pkg.status = "done"
    /\ pkg.exclude_binaries
    /\ \E i \in 1..Len(pkg.toc) : IsOption(pkg.toc[i])
    /\ \E i \in 1..Len(pkg.toc) : pkg.toc[i].typ = "BINARY"
    /\ \E k \in 1..Len(pkg.table) : pkg.table[k] = TocEntry(RuntimeTmpdirOption.inm, "", 0, "o")

(***************************************************************************)
(* MERGE                                                                   *)
(***************************************************************************)
\* a path that does not climb out of the directory of startpath
get_relative_path_NoParents(startpath, topath) == topath

\* lines 819-826: the path from the executable at startpath to topath
get_relative_path(startpath, topath) ==
    LET start == [k \in 1..(Len(startpath) - 1) |-> ".."]
    IN  IF start # <<>> THEN start \o topath ELSE topath

\* line 811: (":".join((dep_path, tpl[0])), tpl[1], "DEPENDENCY")
DependencyEntry(dep_path, tpl) ==
    Entry([dep_path |-> dep_path, inm |-> tpl.inm], tpl.fnm, "DEPENDENCY")

\* a scan without line 812: the entry turned into a reference stays
RECURSIVE ScanTocWithoutRemoval(_, _, _)
ScanTocWithoutRemoval(st, toc, path) ==
    IF toc = <<>> THEN st
    ELSE LET tpl == Head(toc)
             next ==
                IF tpl.fnm \notin DOMAIN st.deps
                THEN [st EXCEPT !.deps = (tpl.fnm :> path) @@ @,
                                !.kept = Append(@, tpl)]
                ELSE [st EXCEPT !.kept = Append(@, tpl),
                                !.added =
                         Append(@, DependencyEntry(
                                      get_relative_path(path, st.deps[tpl.fnm]),
                                      tpl))]
         IN  ScanTocWithoutRemoval(next, Tail(toc), path)

\* lines 804-814 for the entries of one manifest, from the left:
\* st = [deps: self._dependencies, added: the appended references,
\*       kept: the entries that stay]
RECURSIVE ScanToc(_, _, _)
ScanToc(st, toc, path) ==
    IF toc = <<>> THEN st
    ELSE LET tpl == Head(toc)
             next ==
                IF tpl.fnm \notin DOMAIN st.deps
                THEN [st EXCEPT !.deps = (tpl.fnm :> path) @@ @,
                                !.kept = Append(@, tpl)]
                ELSE [st EXCEPT !.added =
                         Append(@, DependencyEntry(
                                      get_relative_path(path, st.deps[tpl.fnm]),
                                      tpl))]
         IN  ScanToc(next, Tail(toc), path)

\* lines 799-814: MERGE._set_dependencies(analysis, path)
set_dependencies(deps, analysis, path) ==
    LET bin == ScanToc([deps |-> deps, added |-> <<>>, kept |-> <<>>],
                       analysis.binaries, path)
        dat == ScanToc([deps |-> bin.deps, added |-> bin.added, kept |-> <<>>],
                       analysis.datas, path)
    IN  [deps |-> dat.deps,
         analysis |-> [binaries |-> bin.kept,
                       datas |-> dat.kept,
                       dependencies |-> analysis.dependencies \o dat.added]]

\* lines 792-796: the identifier of the k-th executable
MergePath(k) ==
    CASE k = 1 -> <<"main">>
      [] k = 2 -> <<"tools", "helper">>
      [] k = 3 -> <<"extra">>
      [] OTHER -> <<"tools", "deep", "probe">>

\* lines 771-784
MERGE_init ==
    /\ merge.status = "ready"
    /\ merge' = [merge EXCEPT !.status = "running", !.deps = <<>>, !.idx = 1]
    /\ UNCHANGED <<collect, pkg, node, pyz>>

\* lines 792-797: one pass of the loop of _merge_dependencies
MERGE_set_dependencies ==
    /\ merge.status = "running"
    /\ merge.idx <= Len(merge.args)
    /\ LET r == set_dependencies(merge.deps, merge.args[merge.idx],
                                 MergePath(merge.idx))
       IN  merge' = [merge EXCEPT !.deps = r.deps,
                                  !.args[merge.idx] = r.analysis,
                                  !.idx = @ + 1]
    /\ UNCHANGED <<collect, pkg, node, pyz>>

\* line 786 returns
MERGE_return ==
    /\ merge.status = "running"
    /\ merge.idx = Len(merge.args) + 1
    /\ merge' = [merge EXCEPT !.status = "done"]
    /\ UNCHANGED <<collect, pkg, node, pyz>>

MaxAnalyses == 3

SharedLib == Entry("a.so", "/src/a.so", "BINARY")

OtherLib == Entry("b.so", "/other/a.so", "BINARY")

SharedLibAlias == Entry("c.so", "/src/a.so", "BINARY")

ThirdLib == Entry("d.so", "/third/d.so", "BINARY")

SharedAsData == Entry("a.dat", "/src/a.so", "DATA")

OtherAsData == Entry("b.dat", "/other/a.so", "DATA")

\* the binaries and datas manifests an analysis may come with
AnalysisBinaries ==
    {<<>>, <<SharedLib>>, <<OtherLib>>, <<SharedLib, OtherLib>>,
     <<SharedLib, SharedLibAlias>>, <<OtherLib, SharedLib, ThirdLib>>}

AnalysisDatas == {<<>>, <<SharedAsData>>, <<OtherAsData>>}

Analyses ==
    [binaries : AnalysisBinaries, datas : AnalysisDatas, dependencies : {<<>>}]

InitMerge ==
    /\ \E n \in 1..MaxAnalyses :
          \E args \in [1..n -> Analyses] :
              merge = [status |-> "ready", args |-> args, given |-> args,
                       deps |-> <<>>, idx |-> 0]
    /\ collect = Idle /\ pkg = Idle /\ node = Idle /\ pyz = Idle

NextMerge ==
    \/ MERGE_init
    \/ MERGE_set_dependencies
    \/ MERGE_return

SpecMerge == InitMerge /\ [][NextMerge]_vars

(***************************************************************************)
(* Claims about MERGE                                                      *)
(***************************************************************************)
ManifestOf(a) == a.binaries \o a.datas

PathsOf(a) == {ManifestOf(a)[i].fnm : i \in 1..Len(ManifestOf(a))}

Occurrences(toc, fnm) == Cardinality({i \in 1..Len(toc) : toc[i].fnm = fnm})

MergePaths == UNION {PathsOf(merge.given[k]) : k \in 1..Len(merge.given)}

\* the analyses that came with the file
Owners(fnm) == {k \in 1..Len(merge.given) : fnm \in PathsOf(merge.given[k])}

\* C5: when each of several analyses lists a file at the same source path
\* once, after MERGE only the earliest of them still has an entry with that
\* path and each of the others has gained exactly one DEPENDENCY entry for
\* it; no source path is left in the manifests of two analyses.
C5_SharedFilePackagedOnce ==
    merge.status = "done" =>
        /\ \A fnm \in MergePaths :
              (\A k \in Owners(fnm) : Occurrences(ManifestOf(merge.given[k]), fnm) = 1)
              => \A k \in Owners(fnm) :
                    IF k = Min(Owners(fnm))
                    THEN /\ Occurrences(ManifestOf(merge.args[k]), fnm) = 1
                         /\ Occurrences(merge.args[k].dependencies, fnm) = 0
                    ELSE /\ Occurrences(ManifestOf(merge.args[k]), fnm) = 0
                         /\ Occurrences(merge.args[k].dependencies, fnm) = 1
                         /\ \A i \in 1..Len(merge.args[k].dependencies) :
                               merge.args[k].dependencies[i].typ = "DEPENDENCY"
        /\ \A k, l \in 1..Len(merge.args) :
              k # l => PathsOf(merge.args[k]) \cap PathsOf(merge.args[l]) = {}

\* three analyses came with the same file; two of them now refer to the first
C5_Witness ==
    /\ merge.status = "done"
    /\ \E fnm \in MergePaths :
          /\ Cardinality(Owners(fnm)) >= 3
          /\ \A k \in Owners(fnm) : Occurrences(ManifestOf(merge.given[k]), fnm) = 1
          /\ \E k \in Owners(fnm) : Occurrences(merge.args[k].dependencies, fnm) = 1

\* C6: the first analysis is left untouched by MERGE: its binaries, its
\* datas and its dependency set are after MERGE what they were before.
C6_FirstAnalysisUntouched ==
    merge.status = "done" => merge.args[1] = merge.given[1]

(***************************************************************************)
(* Build nodes: Target.__postinit__, _check_guts and EXE.assemble          *)
(***************************************************************************)
MaxTime == 3

\* the time of this build invocation: later than every file on disk
Now == MaxTime + 1

\* Target._check_guts: the output is missing, a tracked field differs from
\* the persisted record, or an input file is newer than the last build
Target_check_guts(n) ==
    \/ n.output = 0
    \/ n.data # n.attrs
    \/ n.newest_input > n.last_build

\* lines 108-111
PYZ_check_guts(n) == Target_check_guts(n)

\* lines 212-215
PKG_check_guts(n) == Target_check_guts(n)

\* lines 469-495 with the comparison of line 492 turned round
EXE_check_guts_PkgOlder(n) ==
    \/ n.output = 0
    \/ (~n.append_pkg /\ n.sidecar = "none")
    \/ Target_check_guts(n)
    \/ n.mtm # n.output
    \/ n.mtm > n.pkg_toc

\* lines 469-495 without the test of lines 476-479
EXE_check_guts_NoSidecarTest(n) ==
    \/ n.output = 0
    \/ Target_check_guts(n)
    \/ n.mtm # n.output
    \/ n.mtm < n.pkg_toc

\* lines 469-495
EXE_check_guts(n) ==
    \/ n.output = 0
    \/ (~n.append_pkg /\ n.sidecar = "none")
    \/ Target_check_guts(n)
    \/ n.mtm # n.output
    \/ n.mtm < n.pkg_toc

\* lines 705-708
COLLECT_check_guts(n) == TRUE

check_guts(n) ==
    CASE n.typ = "PYZ" -> PYZ_check_guts(n)
      [] n.typ = "PKG" -> PKG_check_guts(n)
      [] n.typ = "EXECUTABLE" -> EXE_check_guts(n)
      [] n.typ = "COLLECT" -> COLLECT_check_guts(n)

\* Target.__postinit__: assemble when there is no usable record or the
\* node is stale
MustAssemble(n) == n.data = "none" \/ check_guts(n)

\* Target._save_guts after assemble
SaveGuts(n) == [n EXCEPT !.data = n.attrs, !.last_build = Now]

\* a test that never finds the bootloader missing
BootloaderNeverMissing(n) == FALSE

\* line 526: not os.path.exists(exe)
BootloaderMissing(n) == ~n.bootloader

\* the bytes of the bootloader file and of the PKG archive file
BootloaderBytes == "B"

ArchiveBytes == "A"

\* lines 620-625: the bootloader data, then the archive data
AppendArchive(exe, archive) == exe \o archive

\* lines 605-607: objcopy --add-section pydata=<archive>
AddSection(exe, archive) == exe \o "[pydata=" \o archive \o "]"

\* a choice that looks at the platform first
AttachStrategyByPlatform(n) ==
    IF n.platform = "linux" THEN "section"
    ELSE IF ~n.append_pkg THEN "sidecar"
    ELSE "append"

\* lines 598, 603, 616: the branch that attaches the archive
AttachStrategy(n) ==
    IF ~n.append_pkg THEN "sidecar"
    ELSE IF n.platform = "linux" THEN "section"
    ELSE "append"

\* the node is up to date: nothing is assembled
NODE_skip ==
    /\ node.pc = "postinit"
    /\ ~MustAssemble(node)
    /\ node' = [node EXCEPT !.pc = "skipped"]
    /\ UNCHANGED <<collect, pkg, merge, pyz>>

\* PYZ.assemble / PKG.assemble write the archive, then the record is saved
NODE_assemble_archive ==
    /\ node.pc = "postinit"
    /\ node.typ \in {"PYZ", "PKG"}
    /\ MustAssemble(node)
    /\ node' = SaveGuts([node EXCEPT !.pc = "done",
                                     !.output = Now,
                                     !.content = "archive"])
    /\ UNCHANGED <<collect, pkg, merge, pyz>>

\* COLLECT.assemble wipes and refills its directory, then the record is saved
NODE_assemble_directory ==
    /\ node.pc = "postinit"
    /\ node.typ = "COLLECT"
    /\ MustAssemble(node)
    /\ node' = SaveGuts([node EXCEPT !.pc = "done",
                                     !.output = Now,
                                     !.content = "directory"])
    /\ UNCHANGED <<collect, pkg, merge, pyz>>

\* __postinit__ calls EXE.assemble
EXE_assemble ==
    /\ node.pc = "postinit"
    /\ node.typ = "EXECUTABLE"
    /\ MustAssemble(node)
    /\ node' = [node EXCEPT !.pc = "remove"]
    /\ UNCHANGED <<collect, pkg, merge, pyz>>

\* an assemble that leaves the previous output where it is
KeepOutput(n) == n

\* lines 521-522: os.remove(self.name) when it exists
RemoveOutput(n) == [n EXCEPT !.output = 0, !.content = "none"]

\* lines 521-524
EXE_remove_old ==
    /\ node.pc = "remove"
    /\ node' = [RemoveOutput(node) EXCEPT !.pc = "bootloader"]
    /\ UNCHANGED <<collect, pkg, merge, pyz>>

\* lines 525-527
EXE_missing_bootloader ==
    /\ node.pc = "bootloader"
    /\ BootloaderMissing(node)
    /\ node' = [node EXCEPT !.pc = "SystemExit"]
    /\ UNCHANGED <<collect, pkg, merge, pyz>>

\* lines 598-602
EXE_attach_sidecar ==
    /\ node.pc = "bootloader"
    /\ ~BootloaderMissing(node)
    /\ AttachStrategy(node) = "sidecar"
    /\ node' = [node EXCEPT !.pc = "chmod",
                            !.output = Now,
                            !.content = BootloaderBytes,
                            !.sidecar = ArchiveBytes]
    /\ UNCHANGED <<collect, pkg, merge, pyz>>

\* lines 603-613, objcopy returns 0
EXE_attach_section ==
    /\ node.pc = "bootloader"
    /\ ~BootloaderMissing(node)
    /\ AttachStrategy(node) = "section"
    /\ node' = [node EXCEPT !.pc = "chmod",
                            !.output = Now,
                            !.content = AddSection(BootloaderBytes, ArchiveBytes)]
    /\ UNCHANGED <<collect, pkg, merge, pyz>>

\* lines 603-615, objcopy fails
EXE_objcopy_failure ==
    /\ node.pc = "bootloader"
    /\ ~BootloaderMissing(node)
    /\ AttachStrategy(node) = "section"
    /\ node' = [node EXCEPT !.pc = "SystemError",
                            !.output = Now,
                            !.content = BootloaderBytes]
    /\ UNCHANGED <<collect, pkg, merge, pyz>>

\* lines 616-625
EXE_attach_append ==
    /\ node.pc = "bootloader"
    /\ ~BootloaderMissing(node)
    /\ AttachStrategy(node) = "append"
    /\ node' = [node EXCEPT !.pc = "chmod",
                            !.output = Now,
                            !.content = AppendArchive(BootloaderBytes, ArchiveBytes)]
    /\ UNCHANGED <<collect, pkg, merge, pyz>>

\* lines 627-639, then the record is saved
EXE_finish ==
    /\ node.pc = "chmod"
    /\ node' = SaveGuts([node EXCEPT !.pc = "done", !.mtm = node.output])
    /\ UNCHANGED <<collect, pkg, merge, pyz>>

NodeFiles(n) == [output |-> n.output, content |-> n.content, sidecar |-> n.sidecar]

InitNode ==
    /\ \E typ \in {"PYZ", "PKG", "EXECUTABLE", "COLLECT"},
          last_build \in 0..MaxTime,
          data \in {"none", "v1", "v2"},
          newest_input \in 1..MaxTime,
          output \in 0..MaxTime,
          append_pkg \in BOOLEAN,
          sidecar \in {"none", "old"},
          mtm \in 1..MaxTime,
          pkg_toc \in 1..Now,
          pkg_out \in 1..MaxTime,
          bootloader \in BOOLEAN,
          platform \in {"linux", "win", "darwin"} :
        /\ last_build = 0 => data = "none"
        /\ typ # "EXECUTABLE" =>
              /\ append_pkg /\ sidecar = "none" /\ mtm = 1 /\ pkg_toc = 1
              /\ pkg_out = 1
              /\ bootloader /\ platform = "linux"
        /\ node = [pc |-> "postinit", typ |-> typ, attrs |-> "v1",
                   data |-> data, last_build |-> last_build,
                   newest_input |-> newest_input,
                   output |-> output,
                   content |-> IF output = 0 THEN "none" ELSE "old",
                   append_pkg |-> append_pkg, sidecar |-> sidecar,
                   mtm |-> mtm, pkg_toc |-> pkg_toc, pkg_out |-> pkg_out,
                   bootloader |-> bootloader, platform |-> platform,
                   before |-> [output |-> output,
                               content |-> IF output = 0 THEN "none" ELSE "old",
                               sidecar |-> sidecar],
                   given |-> [data |-> data, last_build |-> last_build,
                              mtm |-> mtm]]
    /\ collect = Idle /\ pkg = Idle /\ merge = Idle /\ pyz = Idle

NextNode ==
    \/ NODE_skip
    \/ NODE_assemble_archive
    \/ NODE_assemble_directory
    \/ EXE_assemble
    \/ EXE_remove_old
    \/ EXE_missing_bootloader
    \/ EXE_attach_sidecar
    \/ EXE_attach_section
    \/ EXE_objcopy_failure
    \/ EXE_attach_append
    \/ EXE_finish

SpecNode == InitNode /\ [][NextNode]_vars

(***************************************************************************)
(* Claims about build nodes                                                *)
(***************************************************************************)
\* when the build starts: the output exists, the record equals the tracked
\* fields, no input file is newer than the last recorded build
UpToDate(n) ==
    /\ n.before.output # 0
    /\ n.given.data = n.attrs
    /\ n.newest_input <= n.given.last_build

\* when the build starts: the executable's own extra conditions
ExeUpToDate(n) ==
    /\ n.append_pkg \/ n.before.sidecar # "none"
    /\ n.given.mtm = n.before.output
    /\ n.pkg_toc <= n.given.mtm

NoWorkDone(n) == n.pc \in {"postinit", "skipped"} /\ NodeFiles(n) = n.before

\* C7 as stated: for every kind of node, when the output exists, no
\* tracked field differs from the record and no input is newer than the
\* last build, the node is not stale and nothing is deleted, created or
\* rewritten.
C7_UpToDateNodeDoesNothing ==
    UpToDate(node) => NoWorkDone(node)

\* C7 amended: a PYZ or PKG node that is up to date does no work; an
\* executable does no work when, besides, its sidecar archive is there (if
\* it has one), its output carries the recorded modification time and the
\* archive manifest is not newer than that; a COLLECT node is never skipped.
C7_UpToDateArchiveOrExecutableDoesNothing ==
    /\ (UpToDate(node) /\ node.typ \in {"PYZ", "PKG"}) => NoWorkDone(node)
    /\ (UpToDate(node) /\ node.typ = "EXECUTABLE" /\ ExeUpToDate(node))
          => NoWorkDone(node)
    /\ node.typ = "COLLECT" => node.pc # "skipped"

C7_Witness ==
    /\ node.pc = "skipped"
    /\ node.typ = "EXECUTABLE"
    /\ ~node.append_pkg
    /\ UpToDate(node) /\ ExeUpToDate(node)

\* C10: when the bootloader is missing, EXE.assemble ends in SystemExit
\* before any attachment: no output file exists and the sidecar archive
\* is as it was.
C10_MissingBootloaderAborts ==
    (node.typ = "EXECUTABLE" /\ ~node.bootloader
        /\ node.pc \notin {"postinit", "skipped", "remove", "bootloader"})
    => /\ node.pc = "SystemExit"
       /\ node.output = 0
       /\ node.content = "none"
       /\ node.sidecar = node.before.sidecar

C10_Witness ==
    /\ node.pc = "SystemExit"
    /\ ~node.bootloader
    /\ ~node.append_pkg
    /\ node.before.sidecar = "none"

(***************************************************************************)
(* PYZ.assemble                                                            *)
(***************************************************************************)
\* get_code_object(modname, filename): the code object, or the exception
\* the compilation of that source file raises
get_code_object(modname, filename) ==
    CASE filename = "/src/a.py" -> "code"
      [] filename = "/src/b.py" -> "SyntaxError"
      [] filename = "/src/c.py" -> "ValueError"
      [] filename = "/src/e.py" -> "SyntaxError"
      [] filename = "/boot/pyimod01_os_path.py" -> "code"
      [] OTHER -> "ValueError"

\* TOC.__sub__: the entries whose name is not among the other's names
TocMinus(toc, names) == SelectIdx(toc, LAMBDA i : toc[i].inm \notin names)

\* lines 91-93
key_file ==
    Entry("pyimod00_crypto_key", "/build/pyimod00_crypto_key.pyc", "PYMODULE")

\* lines 87-99: self.dependencies, the bootstrap modules compiled into the
\* work path, the key module first when there is a cipher
PyzDependencies(cipher) ==
    (IF cipher THEN <<key_file>> ELSE <<>>)
       \o <<Entry("pyimod01_os_path", "/build/pyimod01_os_path.pyc", "PYMODULE")>>

\* an archive manifest that keeps the bootstrap modules
PyzWholeToc(toc, dependencies) == toc

\* line 116
PyzOwnToc(toc, dependencies) ==
    TocMinus(toc, {dependencies[i].inm : i \in 1..Len(dependencies)})

\* list.remove: the first element equal to x goes
RECURSIVE RemoveFirst(_, _)
RemoveFirst(s, x) ==
    IF s = <<>> THEN <<>>
    ELSE IF Head(s) = x THEN Tail(s)
         ELSE <<Head(s)>> \o RemoveFirst(Tail(s), x)

\* an except branch that leaves the list alone
PyzKeep(toc, entry) == toc

\* line 125
PyzRemove(toc, entry) == RemoveFirst(toc, entry)

PyzStrRank(str) ==
    CASE str = "a" -> 1 [] str = "b" -> 2 [] str = "c" -> 3 [] str = "d" -> 4
      [] str = "e" -> 5 [] str = "pyimod00_crypto_key" -> 6
      [] str = "pyimod01_os_path" -> 7

\* tuple comparison: the names decide, for they are distinct in a TOC
PyzLess(x, y) == PyzStrRank(x.inm) < PyzStrRank(y.inm)

RECURSIVE PyzInsert(_, _)
PyzInsert(sorted, x) ==
    IF sorted = <<>> THEN <<x>>
    ELSE IF PyzLess(x, Head(sorted)) THEN <<x>> \o sorted
         ELSE <<Head(sorted)>> \o PyzInsert(Tail(sorted), x)

\* line 127
RECURSIVE PyzSort(_)
PyzSort(s) ==
    IF s = <<>> THEN <<>>
    ELSE PyzInsert(PyzSort(Front(s)), Last(s))

\* line 118
PyzNeedsCode(code_dict, entry) ==
    entry.inm \notin DOMAIN code_dict /\ entry.typ = "PYMODULE"

\* lines 130-133
strip_paths_in_code(code) == "stripped"

PyzLooping == pyz.status = "loop" /\ pyz.idx <= Len(pyz.copy)

PyzEntry == pyz.copy[pyz.idx]

\* lines 114-117
PYZ_start ==
    /\ pyz.status = "ready"
    /\ LET toc == PyzOwnToc(pyz.toc, pyz.dependencies)
       IN  pyz' = [pyz EXCEPT !.status = "loop", !.work = toc,
                              !.copy = toc, !.idx = 1]
    /\ UNCHANGED <<collect, pkg, merge, node>>

\* line 118, the test fails
PYZ_has_code ==
    /\ PyzLooping
    /\ ~PyzNeedsCode(pyz.code_dict, PyzEntry)
    /\ pyz' = [pyz EXCEPT !.idx = @ + 1]
    /\ UNCHANGED <<collect, pkg, merge, node>>

\* lines 118-122
PYZ_recompile ==
    /\ PyzLooping
    /\ PyzNeedsCode(pyz.code_dict, PyzEntry)
    /\ get_code_object(PyzEntry.inm, PyzEntry.fnm) = "code"
    /\ pyz' = [pyz EXCEPT !.idx = @ + 1,
                          !.code_dict = (PyzEntry.inm :> "compiled") @@ @]
    /\ UNCHANGED <<collect, pkg, merge, node>>

\* lines 123-125
PYZ_syntax_error ==
    /\ PyzLooping
    /\ PyzNeedsCode(pyz.code_dict, PyzEntry)
    /\ get_code_object(PyzEntry.inm, PyzEntry.fnm) = "SyntaxError"
    /\ pyz' = [pyz EXCEPT !.idx = @ + 1,
                          !.work = PyzRemove(@, PyzEntry)]
    /\ UNCHANGED <<collect, pkg, merge, node>>

\* line 122, an exception the except clause of line 123 does not name
PYZ_recompile_error ==
    /\ PyzLooping
    /\ PyzNeedsCode(pyz.code_dict, PyzEntry)
    /\ get_code_object(PyzEntry.inm, PyzEntry.fnm) \notin {"code", "SyntaxError"}
    /\ pyz' = [pyz EXCEPT !.status = get_code_object(PyzEntry.inm, PyzEntry.fnm)]
    /\ UNCHANGED <<collect, pkg, merge, node>>

\* lines 126-137
PYZ_write ==
    /\ pyz.status = "loop"
    /\ pyz.idx > Len(pyz.copy)
    /\ LET toc == PyzSort(pyz.work)
           code_dict == [key \in DOMAIN pyz.code_dict |->
                            strip_paths_in_code(pyz.code_dict[key])]
       IN  pyz' = [pyz EXCEPT !.status = "done", !.work = toc,
                              !.code_dict = code_dict,
                              !.archive = [toc |-> toc, code_dict |-> code_dict]]
    /\ UNCHANGED <<collect, pkg, merge, node>>

\* the scripts an EXE is given besides the PYZ node
ExeScripts ==
    {<<>>, <<Entry("main", "/src/main.py", "PYSOURCE")>>}

\* lines 393-409: the manifest EXE.__init__ collects from a scripts TOC and
\* the PYZ target
ExeToc(scripts, target, runtime_tmpdir) ==
    scripts
       \o <<Entry("out00-PYZ.pyz", "/build/out00-PYZ.pyz", "PYZ")>>
       \o target.dependencies
       \o (IF runtime_tmpdir
           THEN <<Entry("pyi-runtime-tmpdir /tmp/x", "", "OPTION")>>
           ELSE <<>>)

\* lines 393-437: EXE(scripts, pyz), whose PKG is assembled from the
\* collected manifest
EXE_init ==
    /\ pyz.status = "done"
    /\ \E scripts \in ExeScripts, exclude_binaries \in BOOLEAN,
          runtime_tmpdir \in BOOLEAN :
          LET toc == ExeToc(scripts, pyz, runtime_tmpdir)
          IN  pyz' = [pyz EXCEPT
                         !.status = "exe",
                         !.exe_toc = toc,
                         !.pkg_table =
                            PkgAssemble(toc, [exclude_binaries |-> exclude_binaries,
                                              strip_binaries |-> FALSE,
                                              upx_binaries |-> FALSE])]
    /\ UNCHANGED <<collect, pkg, merge, node>>

MaxPyzToc == 3

PyzEntries ==
    {Entry("a", "/src/a.py", "PYMODULE"),
     Entry("b", "/src/b.py", "PYMODULE"),
     Entry("c", "/src/c.py", "PYMODULE"),
     Entry("e", "/src/e.py", "PYMODULE"),
     Entry("d", "/src/d.dat", "DATA"),
     Entry("pyimod00_crypto_key", "/src/a.py", "PYMODULE"),
     Entry("pyimod01_os_path", "/boot/pyimod01_os_path.py", "PYMODULE")}

\* a TOC holds each name once
PyzTocs ==
    {toc \in SeqsUpTo(PyzEntries, MaxPyzToc) :
        \A i, j \in 1..Len(toc) : toc[i].inm = toc[j].inm => i = j}

\* the code objects the analysis handed over (its _code_cache)
PyzCodeCaches ==
    {[key \in keys |-> "cached"] : keys \in SUBSET {"a", "b", "c", "e"}}

InitPyz ==
    /\ \E toc \in PyzTocs, cache \in PyzCodeCaches, cipher \in BOOLEAN :
          pyz = [status |-> "ready", toc |-> toc, cache |-> cache,
                 cipher |-> cipher,
                 dependencies |-> PyzDependencies(cipher),
                 exe_toc |-> <<>>, pkg_table |-> <<>>,
                 code_dict |-> cache, work |-> <<>>, copy |-> <<>>,
                 idx |-> 0, archive |-> "none"]
    /\ collect = Idle /\ pkg = Idle /\ merge = Idle /\ node = Idle

NextPyz ==
    \/ PYZ_start
    \/ PYZ_has_code
    \/ PYZ_recompile
    \/ PYZ_syntax_error
    \/ PYZ_recompile_error
    \/ PYZ_write
    \/ EXE_init

SpecPyz == InitPyz /\ [][NextPyz]_vars

(***************************************************************************)
(* Claims about PYZ.assemble                                               *)
(***************************************************************************)
PyzEnded == pyz.status \notin {"ready", "loop"}

\* PYZ.assemble returned; an EXE may have been built from the node since
PyzCompleted == pyz.status \in {"done", "exe"}

\* the entries of the manifest that are no bootstrap modules
NonBootstrap ==
    {e \in Range(pyz.toc) :
        \A i \in 1..Len(pyz.dependencies) : e.inm # pyz.dependencies[i].inm}

\* the module came without code and has to be recompiled
Uncompiled(e) == e.typ = "PYMODULE" /\ e.inm \notin DOMAIN pyz.cache

FailsRecompilation(e) ==
    Uncompiled(e) /\ get_code_object(e.inm, e.fnm) # "code"

FailsWithSyntaxError(e) ==
    Uncompiled(e) /\ get_code_object(e.inm, e.fnm) = "SyntaxError"

C11_BootstrapGoesToContainer ==
    /\ PyzCompleted =>
          \A i \in 1..Len(pyz.dependencies), j \in 1..Len(pyz.archive.toc) :
              pyz.archive.toc[j].inm # pyz.dependencies[i].inm
    /\ pyz.status = "exe" =>
          \A i \in 1..Len(pyz.dependencies) :
              /\ pyz.dependencies[i] \in Range(pyz.exe_toc)
              /\ \E row \in Range(pyz.pkg_table) :
                    /\ row.inm = pyz.dependencies[i].inm
                    /\ row.fnm = pyz.dependencies[i].fnm

C11_Witness ==
    /\ pyz.status = "exe"
    /\ pyz.cipher
    /\ \E e \in Range(pyz.toc) : e.inm = "pyimod00_crypto_key"
    /\ \E e \in Range(pyz.toc) : e.inm = "pyimod01_os_path"
    /\ pyz.archive.toc # <<>>

(***************************************************************************)
(* Further claims about PKG.assemble                                       *)
(***************************************************************************)
\* no triple is listed twice in the manifest
NoEntryTwice(toc) == \A i, j \in 1..Len(toc) : toc[i] = toc[j] => i = j

\* C12: with exclude_binaries false, the entries PKG.assemble keeps never
\* include two of type BINARY or EXTENSION with the same internal name
\* (shown already for the manifests that list no triple twice).
C12_NoTwoBinariesShareName ==
    (pkg.status = "done" /\ ~pkg.exclude_binaries /\ NoEntryTwice(pkg.toc)) =>
        \A i, j \in pkg.loop.kept :
            (/\ pkg.ntoc[i].typ \in {"BINARY", "EXTENSION"}
             /\ pkg.ntoc[j].typ \in {"BINARY", "EXTENSION"}
             /\ pkg.ntoc[i].inm = pkg.ntoc[j].inm) => i = j

\* no earlier embedded binary, extension or dependency carries the name
NameNotSeenBefore(toc, i) ==
    \A k \in 1..(i - 1) :
        (IsBinaryKind(toc[k]) /\ ~PkgInEgg(toc[k])) => toc[k].inm # toc[i].inm

\* entries i < j list one source path as a binary under two new names
OneFileTwoNames(toc, i, j) ==
    /\ i < j
    /\ toc[i].typ = "BINARY" /\ toc[j].typ = "BINARY"
    /\ toc[i].fnm = toc[j].fnm
    /\ toc[i].inm # toc[j].inm
    /\ ~PkgInEgg(toc[i])
    /\ NameNotSeenBefore(toc, i) /\ NameNotSeenBefore(toc, j)

\* C13: with exclude_binaries false, when one source path is listed as a
\* binary under two internal names, neither seen before, both entries are
\* kept and are rows of the final table, the second one raises the 'two
\* internal names' warning only, and the build does not abort for it.
C13_OneFileTwoNamesKeepsBoth ==
    (PkgLoopDone /\ ~pkg.exclude_binaries) =>
        \A i, j \in 1..Len(pkg.ntoc) :
            OneFileTwoNames(pkg.ntoc, i, j) =>
                /\ {i, j} \subseteq pkg.loop.kept
                /\ Warned("two internal names", j)
                /\ ~Warned("same internal name", i)
                /\ ~Warned("same internal name", j)
                /\ AllFilesPresent(pkg.ntoc) => pkg.status = "done"
                /\ pkg.status = "done" =>
                      \A k \in {i, j} :
                          \E r \in 1..Len(pkg.table) :
                              /\ pkg.table[r].inm = pkg.ntoc[k].inm
                              /\ pkg.table[r].code = "b"
                              /\ pkg.table[r].fnm =
                                    checkCache(pkg.ntoc[k].fnm,
                                               pkg.strip_binaries,
                                               pkg.upx_binaries)

C13_Witness ==
    /\ pkg.status = "done"
    /\ ~pkg.exclude_binaries
    /\ \E i, j \in 1..Len(pkg.ntoc) : OneFileTwoNames(pkg.ntoc, i, j)

(***************************************************************************)
(* Further claims about EXE                                                *)
(***************************************************************************)
ExeBuilt == node.typ = "EXECUTABLE" /\ node.pc = "done"

ExeWithRecord == node.typ = "EXECUTABLE" /\ node.given.data # "none"

SidecarMissing == ~node.append_pkg /\ node.before.sidecar = "none"

NameEscapes(inm) ==
    inm.abs \/ ".." \in Range(normpath(inm.abs, inm.segs))

\* the entries the loop has gone past without aborting
PassedOver == 1..(collect.idx - 1)

\* C16 as stated: no entry whose internal name is absolute or has a parent
\* directory segment is ever skipped or passed over, whatever its type and
\* its backing file (shown already for the names that still escape after
\* normalisation).
C16_EveryEscapingNameRejected ==
    collect.status \notin {"idle", "ready"} =>
        \A j \in PassedOver : ~NameEscapes(collect.toc[j].inm)

\* C16 amended: the loop goes past an entry with an escaping name only by
\* skipping it for its missing backing file (or as part of an egg), before
\* the name is looked at; every other such entry ends the build with the
\* security alert when the loop reaches it, so a build that completes or
\* ends in another error holds none.
C16_EscapingNameRejectedUnlessSkipped ==
    collect.status \notin {"idle", "ready"} =>
        /\ \A j \in PassedOver :
              NameEscapes(collect.toc[j].inm) =>
                  /\ j \in collect.skipped
                  /\ j \notin collect.copied
                  /\ CollectSkips(collect.toc[j])
        /\ \A j \in 1..Len(collect.toc) :
              (NameEscapes(collect.toc[j].inm) /\ ~CollectSkips(collect.toc[j]))
                  => /\ collect.status # "done"
                     /\ collect.idx <= j
                     /\ (collect.idx = j /\ collect.status # "running")
                           => collect.status = "security_alert"

C16_Witness ==
    /\ collect.status = "done"
    /\ collect.copied # {}
    /\ \E j \in collect.skipped :
          /\ NameEscapes(collect.toc[j].inm)
          /\ collect.toc[j].typ = "DATA"

(***************************************************************************)
(* EXE.assemble on Windows: the loop over self.resources                   *)
(***************************************************************************)
\* the fields of a resource string after the split and the int conversion
\* of lines 543-548: "None" is a field that was not written, "0" the
\* integer 0; the other values are themselves
ResTypes == {"None", "0", "*", "24"}

ResNames == {"None", "*", "1"}

\* what winresource answers for the resource file: the merge of line 559
\* succeeds or raises pywintypes.error with a code, the raw insertion of
\* line 581 succeeds or raises pywintypes.error
ResFiles ==
    {[merge |-> "ok", data |-> "ok"],
     [merge |-> "ERROR_ACCESS_DENIED", data |-> "ok"],
     [merge |-> "ERROR_BAD_EXE_FORMAT", data |-> "ok"],
     [merge |-> "ERROR_BAD_EXE_FORMAT", data |-> "error"]}

Resources ==
    {[restype |-> t, resname |-> n, resfile |-> f] :
        t \in ResTypes, n \in ResNames, f \in ResFiles}

\* Python's "not x" for a field
Not(field) == field \in {"None", "", "0"}

\* a loop body without the wildcard test of lines 577-581
ResBranchNoWildcardTest(res) ==
    IF res.resfile.merge = "ok" THEN "merged"
    ELSE IF res.resfile.merge # "ERROR_BAD_EXE_FORMAT" THEN "merge_error"
    ELSE IF Not(res.restype) \/ Not(res.resname) THEN "not_specified"
    ELSE IF res.resfile.data = "ok" THEN "inserted"
    ELSE "data_error"

\* lines 558-589: the way one resource entry takes through the loop body
ResBranch(res) ==
    IF res.resfile.merge = "ok" THEN "merged"
    ELSE IF res.resfile.merge # "ERROR_BAD_EXE_FORMAT" THEN "merge_error"
    ELSE IF Not(res.restype) \/ Not(res.resname) THEN "not_specified"
    ELSE IF "*" \in {res.restype, res.resname} THEN "wildcard"
    ELSE IF res.resfile.data = "ok" THEN "inserted"
    ELSE "data_error"

ResTakes(branch) ==
    /\ node.pc = "resources"
    /\ node.idx <= Len(node.resources)
    /\ ResBranch(node.resources[node.idx]) = branch

\* lines 558-562: the resources of the file are merged into the scratch copy
EXE_res_merged ==
    /\ ResTakes("merged")
    /\ node' = [node EXCEPT !.idx = @ + 1,
                            !.tmpnm = @ \cup {[idx |-> node.idx, how |-> "merge"]}]
    /\ UNCHANGED <<collect, pkg, merge, pyz>>

\* lines 563-567
EXE_res_merge_error ==
    /\ ResTakes("merge_error")
    /\ node' = [node EXCEPT !.idx = @ + 1,
                            !.log = @ \cup {[idx |-> node.idx,
                                             msg |-> "Error while updating resources"]}]
    /\ UNCHANGED <<collect, pkg, merge, pyz>>

\* lines 571-573
EXE_res_not_specified ==
    /\ ResTakes("not_specified")
    /\ node' = [node EXCEPT !.idx = @ + 1,
                            !.log = @ \cup {[idx |-> node.idx,
                                             msg |-> "resource type and/or name not specified"]}]
    /\ UNCHANGED <<collect, pkg, merge, pyz>>

\* lines 574-578
EXE_res_wildcard ==
    /\ ResTakes("wildcard")
    /\ node' = [node EXCEPT !.idx = @ + 1,
                            !.log = @ \cup {[idx |-> node.idx,
                                             msg |-> "no wildcards allowed"]}]
    /\ UNCHANGED <<collect, pkg, merge, pyz>>

\* lines 579-584: the file goes in as one raw resource
EXE_res_inserted ==
    /\ ResTakes("inserted")
    /\ node' = [node EXCEPT !.idx = @ + 1,
                            !.tried = @ \cup {node.idx},
                            !.tmpnm = @ \cup {[idx |-> node.idx, how |-> "data"]}]
    /\ UNCHANGED <<collect, pkg, merge, pyz>>

\* lines 579-589: the raw insertion raises
EXE_res_data_error ==
    /\ ResTakes("data_error")
    /\ node' = [node EXCEPT !.idx = @ + 1,
                            !.tried = @ \cup {node.idx},
                            !.log = @ \cup {[idx |-> node.idx,
                                             msg |-> "Error while updating resource"]}]
    /\ UNCHANGED <<collect, pkg, merge, pyz>>

\* lines 590-593: the loop is over, the scratch copy becomes the bootloader
EXE_res_done ==
    /\ node.pc = "resources"
    /\ node.idx = Len(node.resources) + 1
    /\ node' = [node EXCEPT !.pc = "attach"]
    /\ UNCHANGED <<collect, pkg, merge, pyz>>

MaxResources == 2

InitRes ==
    /\ \E resources \in SeqsUpTo(Resources, MaxResources) :
          node = [pc |-> "resources", resources |-> resources, idx |-> 1,
                  tmpnm |-> {}, log |-> {}, tried |-> {}]
    /\ collect = Idle /\ pkg = Idle /\ merge = Idle /\ pyz = Idle

NextRes ==
    \/ EXE_res_merged
    \/ EXE_res_merge_error
    \/ EXE_res_not_specified
    \/ EXE_res_wildcard
    \/ EXE_res_inserted
    \/ EXE_res_data_error
    \/ EXE_res_done

SpecRes == InitRes /\ [][NextRes]_vars

\* the merge failed for a file without resource table, type and name are
\* both given (written, not empty, not 0) and neither is a wildcard
FallbackDue(res) ==
    /\ res.resfile.merge = "ERROR_BAD_EXE_FORMAT"
    /\ res.restype \notin {"None", "", "0", "*"}
    /\ res.resname \notin {"None", "", "0", "*"}

ResLogged(j) == \E l \in node.log : l.idx = j

ResApplied(j) == \E a \in node.tmpnm : a.idx = j

PkgLoopEmbedding ==
    PkgLoop(pkg.ntoc, Len(pkg.ntoc), [PkgCfg EXCEPT !.exclude_binaries = FALSE])

\* C18: with exclude_binaries true no BINARY or EXTENSION entry is kept or
\* sent through checkCache, and every entry of another type is kept for
\* the table exactly when it is kept with exclude_binaries false.
C18_ExcludeBinariesDropsOnlyBinaries ==
    (pkg.status = "done" /\ pkg.exclude_binaries) =>
        /\ pkg.loop.cached = {}
        /\ \A i \in 1..Len(pkg.ntoc) :
              IF pkg.ntoc[i].typ \in {"BINARY", "EXTENSION"}
              THEN i \notin pkg.loop.kept
              ELSE i \in pkg.loop.kept <=> i \in PkgLoopEmbedding.kept

(***************************************************************************)
(* EXE.__init__: the PKG is constructed, then the EXE checks itself        *)
(***************************************************************************)
\* an __init__ that checks the EXE before it constructs the PKG
ExeInitPostinitFirst == <<"toc", "postinit", "PKG", "exefiles">>

\* lines 393-445: the statements of EXE.__init__ in program order; the
\* construction of the PKG (433-437) runs PKG.__init__ to its end,
\* PKG.__postinit__ included (line 199)
ExeInitOrder == <<"toc", "PKG", "exefiles", "postinit">>

ExeInitAt(stmt) ==
    /\ node.status = "init"
    /\ node.step <= Len(ExeInitOrder)
    /\ ExeInitOrder[node.step] = stmt

\* lines 393-431
EXE_init_toc ==
    /\ ExeInitAt("toc")
    /\ node' = [node EXCEPT !.step = @ + 1]
    /\ UNCHANGED <<collect, pkg, merge, pyz>>

\* lines 433-437 and 199: PKG.__postinit__ begins
PKG_postinit ==
    /\ ExeInitAt("PKG")
    /\ pkg.status = "unbuilt"
    /\ pkg' = [pkg EXCEPT !.status = "checking"]
    /\ UNCHANGED <<collect, node, merge, pyz>>

\* the PKG is up to date
PKG_postinit_skip ==
    /\ pkg.status = "checking"
    /\ ~MustAssemble(pkg)
    /\ pkg' = [pkg EXCEPT !.status = "finished"]
    /\ node' = [node EXCEPT !.step = @ + 1]
    /\ UNCHANGED <<collect, merge, pyz>>

\* PKG.assemble starts to write the archive
PKG_postinit_assemble ==
    /\ pkg.status = "checking"
    /\ MustAssemble(pkg)
    /\ pkg' = [pkg EXCEPT !.status = "assembling", !.content = "partial",
                          !.output = Now]
    /\ UNCHANGED <<collect, node, merge, pyz>>

\* PKG.assemble returns, the record is saved, PKG.__init__ returns
PKG_postinit_finish ==
    /\ pkg.status = "assembling"
    /\ ~pkg.fails
    /\ pkg' = SaveGuts([pkg EXCEPT !.status = "finished", !.content = "new"])
    /\ node' = [node EXCEPT !.step = @ + 1]
    /\ UNCHANGED <<collect, merge, pyz>>

\* PKG.assemble raises: the exception leaves EXE.__init__
PKG_postinit_error ==
    /\ pkg.status = "assembling"
    /\ pkg.fails
    /\ pkg' = [pkg EXCEPT !.status = "error"]
    /\ node' = [node EXCEPT !.status = "error"]
    /\ UNCHANGED <<collect, merge, pyz>>

\* lines 438-443
EXE_init_exefiles ==
    /\ ExeInitAt("exefiles")
    /\ node' = [node EXCEPT !.step = @ + 1]
    /\ UNCHANGED <<collect, pkg, merge, pyz>>

\* what EXE._check_guts sees: line 492 reads the PKG's record file
ExeSeen == [node EXCEPT !.pkg_toc = pkg.last_build]

\* line 445: EXE.__postinit__ begins
EXE_init_postinit ==
    /\ ExeInitAt("postinit")
    /\ node' = [node EXCEPT !.status = "checking", !.pkg_was = pkg.status]
    /\ UNCHANGED <<collect, pkg, merge, pyz>>

\* the EXE is up to date
EXE_postinit_skip ==
    /\ node.status = "checking"
    /\ ~MustAssemble(ExeSeen)
    /\ node' = [node EXCEPT !.status = "skipped"]
    /\ UNCHANGED <<collect, pkg, merge, pyz>>

\* EXE.assemble up to the attachment, lines 517-597
EXE_postinit_assemble ==
    /\ node.status = "checking"
    /\ MustAssemble(ExeSeen)
    /\ node' = [node EXCEPT !.status = "assembling", !.output = 0]
    /\ UNCHANGED <<collect, pkg, merge, pyz>>

\* lines 598-639: the archive file is read and attached
EXE_postinit_attach ==
    /\ node.status = "assembling"
    /\ node' = SaveGuts([node EXCEPT !.status = "built",
                                     !.output = Now,
                                     !.mtm = Now,
                                     !.read = pkg.content,
                                     !.pkg_was = pkg.status])
    /\ UNCHANGED <<collect, pkg, merge, pyz>>

InitOrder ==
    /\ \E output \in {0, 1}, data \in {"none", "v1", "v2"},
          newest_input \in {1, 2}, fails \in BOOLEAN :
          pkg = [status |-> "unbuilt", typ |-> "PKG", attrs |-> "v1",
                 data |-> data, last_build |-> 1,
                 newest_input |-> newest_input, output |-> output,
                 content |-> IF output = 0 THEN "none" ELSE "old",
                 fails |-> fails]
    /\ \E output \in {0, 1, 2}, data \in {"none", "v1", "v2"},
          newest_input \in {1, 2, 3}, append_pkg \in BOOLEAN,
          sidecar \in {"none", "old"}, mtm \in {1, 2} :
          node = [status |-> "init", step |-> 1, typ |-> "EXECUTABLE",
                  attrs |-> "v1", data |-> data, last_build |-> 2,
                  newest_input |-> newest_input, output |-> output,
                  append_pkg |-> append_pkg, sidecar |-> sidecar,
                  mtm |-> mtm, pkg_toc |-> 0,
                  read |-> "nothing", pkg_was |-> "unbuilt"]
    /\ collect = Idle /\ merge = Idle /\ pyz = Idle

NextOrder ==
    \/ EXE_init_toc
    \/ PKG_postinit
    \/ PKG_postinit_skip
    \/ PKG_postinit_assemble
    \/ PKG_postinit_finish
    \/ PKG_postinit_error
    \/ EXE_init_exefiles
    \/ EXE_init_postinit
    \/ EXE_postinit_skip
    \/ EXE_postinit_assemble
    \/ EXE_postinit_attach

SpecOrder == InitOrder /\ [][NextOrder]_vars

\* C19: whenever the EXE is in or past its staleness check, the PKG that
\* feeds it has finished its own check and, if it was stale, its assembly;
\* the archive the attachment reads is a finished one, the one on disk at
\* the end of the PKG's construction.
C19_PkgFinishedBeforeExeBegins ==
    /\ node.status \in {"checking", "skipped", "assembling", "built"} =>
          /\ pkg.status = "finished"
          /\ node.pkg_was = "finished"
    /\ node.status = "built" =>
          /\ node.read \in {"old", "new"}
          /\ node.read = pkg.content
    /\ pkg.status \in {"checking", "assembling", "error"} =>
          node.status \in {"init", "error"}

C19_Witness ==
    /\ node.status = "built"
    /\ node.read = "new"
    /\ pkg.status = "finished"

\* C20: an EXE build that ends in SystemExit for the missing bootloader
\* has removed the output file that existed before the invocation, and the
\* persisted record is left as it was.
C20_AbortRemovesPreviousOutput ==
    (node.typ = "EXECUTABLE" /\ node.pc = "SystemExit") =>
        /\ ~node.bootloader
        /\ node.output = 0
        /\ node.content = "none"
        /\ node.data = node.given.data
        /\ node.last_build = node.given.last_build

C20_Witness ==
    /\ node.typ = "EXECUTABLE"
    /\ node.pc = "SystemExit"
    /\ node.before.output # 0
    /\ node.before.content = "old"
    /\ node.output = 0

(***************************************************************************)
(* MERGE: conservation of entries                                          *)
(***************************************************************************)
CountOf(toc, Test(_)) == Cardinality({i \in 1..Len(toc) : Test(toc[i])})

\* what analysis k gained in its dependency set
AppendedTo(k) ==
    SubSeq(merge.args[k].dependencies,
           Len(merge.given[k].dependencies) + 1,
           Len(merge.args[k].dependencies))

\* the first analysis that came with the file
OwnerOf(fnm) == Min(Owners(fnm))

\* from the directory of executable k up to the root, then down to the owner
RelativeTo(k, owner) ==
    [i \in 1..(Len(MergePath(k)) - 1) |-> ".."] \o MergePath(owner)

\* the reference that stands for entry e in analysis k
ReferenceFor(k, e) ==
    [inm |-> [dep_path |-> RelativeTo(k, OwnerOf(e.fnm)), inm |-> e.inm],
     fnm |-> e.fnm,
     typ |-> "DEPENDENCY"]

RECURSIVE IsSubsequence(_, _)
IsSubsequence(s, t) ==
    IF s = <<>> THEN TRUE
    ELSE IF t = <<>> THEN FALSE
    ELSE IF Head(s) = Head(t) THEN IsSubsequence(Tail(s), Tail(t))
    ELSE IsSubsequence(s, Tail(t))

RemovedFrom(k) ==
    Len(ManifestOf(merge.given[k])) - Len(ManifestOf(merge.args[k]))

\* C21: after MERGE, for every analysis the number of entries removed from
\* its binaries and datas equals the number of entries appended to its
\* dependency set; every entry that was listed is either still listed or
\* stands in the dependency set as ('<relative path to owner>:<internal
\* name>', source path, DEPENDENCY), nothing else is appended, and the
\* entries that stay in binaries and in datas keep their relative order.
C21_MergeConservesEntries ==
    merge.status = "done" =>
        \A k \in 1..Len(merge.args) :
            /\ RemovedFrom(k) = Len(AppendedTo(k))
            /\ \A j \in 1..Len(ManifestOf(merge.given[k])) :
                  LET e == ManifestOf(merge.given[k])[j]
                      Same(x) == x.inm = e.inm /\ x.fnm = e.fnm
                      Ref(x) == x = ReferenceFor(k, e)
                  IN  CountOf(ManifestOf(merge.given[k]), Same)
                        = CountOf(ManifestOf(merge.args[k]), Same)
                          + CountOf(AppendedTo(k), Ref)
            /\ \A i \in 1..Len(AppendedTo(k)) :
                  \E j \in 1..Len(ManifestOf(merge.given[k])) :
                      AppendedTo(k)[i]
                        = ReferenceFor(k, ManifestOf(merge.given[k])[j])
            /\ SubSeq(merge.args[k].dependencies, 1,
                      Len(merge.given[k].dependencies))
                 = merge.given[k].dependencies
            /\ IsSubsequence(merge.args[k].binaries, merge.given[k].binaries)
            /\ IsSubsequence(merge.args[k].datas, merge.given[k].datas)

\* an executable in a subdirectory lost a binary from between two others
\* and a data file, and refers to the owner of each by a climbing path
C21_Witness ==
    /\ merge.status = "done"
    /\ \E k \in 1..Len(merge.args) :
          /\ Len(MergePath(k)) > 1
          /\ Len(merge.given[k].binaries) = 3
          /\ merge.args[k].binaries
               = <<merge.given[k].binaries[1], merge.given[k].binaries[3]>>
          /\ merge.given[k].datas # <<>>
          /\ merge.args[k].datas = <<>>
          /\ Len(AppendedTo(k)) = 2
          /\ Head(AppendedTo(k)[1].inm.dep_path) = ".."

(***************************************************************************)
(* PKG: layout of the final table                                          *)
(***************************************************************************)
\* (type code, internal name) of x is not greater than that of y
KeyNotGreater(x, y) ==
    \/ CodeRank(x.code) < CodeRank(y.code)
    \/ CodeRank(x.code) = CodeRank(y.code) /\ NameRank(x.inm) <= NameRank(y.inm)

\* C22: in the table handed to the archive writer every PYSOURCE/PYMODULE
\* row precedes every row of another type, whatever the order of the two
\* kinds in the manifest, and the rows of other types are in nondecreasing
\* order of (type code, internal name).
C22_SourcesFirstThenSortedRest ==
    pkg.status = "done" =>
        \A k, l \in 1..Len(pkg.table) :
            /\ (IsSourceRow(pkg.table[k]) /\ ~IsSourceRow(pkg.table[l])) => k < l
            /\ (~IsSourceRow(pkg.table[k]) /\ ~IsSourceRow(pkg.table[l]) /\ k < l)
                  => KeyNotGreater(pkg.table[k], pkg.table[l])

\* the manifest lists a data file, then a source, then a binary; the table
\* lists the source, then the binary, then the data file
C22_Witness ==
    /\ pkg.status = "done"
    /\ Len(pkg.toc) = 3
    /\ pkg.toc[1].typ = "DATA"
    /\ IsSource(pkg.toc[2])
    /\ pkg.toc[3].typ = "BINARY"
    /\ Len(pkg.table) = 3
    /\ IsSourceRow(pkg.table[1])
    /\ pkg.table[2].code = "b" /\ pkg.table[2].inm = pkg.toc[3].inm
    /\ pkg.table[3].code = "x" /\ pkg.table[3].inm = pkg.toc[1].inm

=============================================================================
